---- MODULE Spec2Model ----
(***************************************************************************)
(* Model of the blog-writing script: src/utils.py (get_openai_api_key) and *)
(* src/agents.py (module body, executed top to bottom).                    *)
(*                                                                         *)
(* The process environment os.environ and the .env file are partial        *)
(* functions from variable names to strings (a name outside the DOMAIN is  *)
(* not set).  Python's None is the reserved string None, which is not a    *)
(* member of any value set below.  pc is the statement the interpreter     *)
(* executes next.                                                          *)
(***************************************************************************)
EXTENDS Integers, Sequences, FiniteSets, TLC

VARIABLES pc, helperAvailable, resolver, env, env0, dotenvFile, api_key,
          openai_api_key, prompts, entered, agents, tasks, crew, submissions,
          started, finished, engineOutcome, result, error

vars == <<pc, helperAvailable, resolver, env, env0, dotenvFile, api_key,
          openai_api_key, prompts, entered, agents, tasks, crew, submissions,
          started, finished, engineOutcome, result, error>>

(* ---------------------------- input domains ---------------------------- *)

\* number of distinct non-empty credential strings the inputs range over
NumKeys == 2

KeyPool == <<"sk-a", "sk-b", "sk-c", "sk-d">>

\* the empty string and NumKeys non-empty strings
Values == {""} \cup {KeyPool[i] : i \in 1..NumKeys}

None == "None"

API_KEY == "OPENAI_API_KEY"
MODEL_NAME == "OPENAI_MODEL_NAME"
EXTRA_VAR == "OTHER_VAR"

EnvVars == {API_KEY, MODEL_NAME, EXTRA_VAR}

\* the strings a variable may hold, in the environment or in the .env file
ValuesOf(k) == IF k = API_KEY THEN Values
               ELSE IF k = MODEL_NAME THEN {"gpt-4", "gpt-3.5-turbo"}
               ELSE {"x"}

\* all partial assignments of the variables
Assignments == UNION {[S -> UNION {ValuesOf(k) : k \in S}] : S \in SUBSET EnvVars}

WellTyped(f) == \A k \in DOMAIN f : f[k] \in ValuesOf(k)

\* the literal of agents.py:88 and one other topic
Topics == {"AI Engineering and AI-first Engineering approach", "another topic"}

EngineErrors == {"APIError", "Timeout"}
EngineOutputs == {"article-1", "article-2"}

(* ------------------------------ helpers -------------------------------- *)

\* os.environ.get(k)
EnvGet(e, k) == IF k \in DOMAIN e THEN e[k] ELSE None

\* os.environ[k] = v
EnvSet(e, k, v) == [x \in DOMAIN e \cup {k} |-> IF x = k THEN v ELSE e[x]]

\* truth value of a str-or-None
Truthy(v) == v # None /\ v # ""

\* variant: load_dotenv(override=True), the file wins
LoadDotenvOverride(e, f) ==
    [x \in DOMAIN e \cup DOMAIN f |-> IF x \in DOMAIN f THEN f[x] ELSE e[x]]

\* variant: the file is never loaded
LoadDotenvSkipped(e, f) == e

\* load_dotenv() with the default override=False: a variable of the file is
\* written only when the environment does not have it already
load_dotenv(e, f) ==
    [x \in DOMAIN e \cup DOMAIN f |-> IF x \in DOMAIN e THEN e[x] ELSE f[x]]

NoCrew == [agents |-> <<>>, tasks |-> <<>>, verbose |-> FALSE]
NoOutcome == [kind |-> "none", value |-> None]

(* ------------------------------- Init ---------------------------------- *)

Init ==
    /\ pc = "import_utils"
    /\ helperAvailable \in BOOLEAN
    /\ resolver = None
    /\ env0 \in {f \in Assignments : WellTyped(f)}
    /\ env = env0
    /\ dotenvFile \in {f \in Assignments : WellTyped(f)}
    /\ api_key = None
    /\ openai_api_key = None
    /\ prompts = 0
    /\ entered = <<>>
    /\ agents = <<>>
    /\ tasks = <<>>
    /\ crew = NoCrew
    /\ submissions = <<>>
    /\ started = <<>>
    /\ finished = <<>>
    /\ engineOutcome = NoOutcome
    /\ result = None
    /\ error = None

(* --------------------------- agents.py 6-12 ---------------------------- *)

\* try: from utils import get_openai_api_key / except ImportError: def stub
ImportHelper ==
    /\ pc = "import_utils"
    /\ resolver' = IF helperAvailable THEN "utils" ELSE "stub"
    /\ pc' = "call_resolver"
    /\ UNCHANGED <<helperAvailable, env, env0, dotenvFile, api_key,
                   openai_api_key, prompts, entered, agents, tasks, crew,
                   submissions, started, finished, engineOutcome, result, error>>

\* openai_api_key = get_openai_api_key(), entering the function of utils.py
CallResolver ==
    /\ pc = "call_resolver"
    /\ resolver = "utils"
    /\ pc' = "load_dotenv"
    /\ UNCHANGED <<helperAvailable, resolver, env, env0, dotenvFile, api_key,
                   openai_api_key, prompts, entered, agents, tasks, crew,
                   submissions, started, finished, engineOutcome, result, error>>

\* variant: the stub returns an empty key instead of raising
StubReturnsEmpty ==
    /\ pc = "call_resolver"
    /\ resolver = "stub"
    /\ openai_api_key' = ""
    /\ pc' = "set_env_key"
    /\ UNCHANGED <<helperAvailable, resolver, env, env0, dotenvFile, api_key,
                   prompts, entered, agents, tasks, crew, submissions,
                   started, finished, engineOutcome, result, error>>

\* the stub raises ImportError; nothing catches it
StubRaise ==
    /\ pc = "call_resolver"
    /\ resolver = "stub"
    /\ error' = "ImportError"
    /\ pc' = "crashed"
    /\ UNCHANGED <<helperAvailable, resolver, env, env0, dotenvFile, api_key,
                   openai_api_key, prompts, entered, agents, tasks, crew,
                   submissions, started, finished, engineOutcome, result>>

(* ------------------------------ utils.py ------------------------------- *)

\* load_dotenv()
LoadDotenv ==
    /\ pc = "load_dotenv"
    /\ env' = load_dotenv(env, dotenvFile)
    /\ pc' = "read_env"
    /\ UNCHANGED <<helperAvailable, resolver, env0, dotenvFile, api_key,
                   openai_api_key, prompts, entered, agents, tasks, crew,
                   submissions, started, finished, engineOutcome, result, error>>

\* variant: the lookup uses another variable name
ReadEnvWrongName ==
    /\ pc = "read_env"
    /\ api_key' = EnvGet(env, "OPENAI_KEY")
    /\ pc' = IF Truthy(api_key') THEN "return_key" ELSE "prompt"
    /\ UNCHANGED <<helperAvailable, resolver, env, env0, dotenvFile,
                   openai_api_key, prompts, entered, agents, tasks, crew,
                   submissions, started, finished, engineOutcome, result, error>>

\* api_key = os.environ.get("OPENAI_API_KEY"); if not api_key:
ReadEnv ==
    /\ pc = "read_env"
    /\ api_key' = EnvGet(env, API_KEY)
    /\ pc' = IF Truthy(api_key') THEN "return_key" ELSE "prompt"
    /\ UNCHANGED <<helperAvailable, resolver, env, env0, dotenvFile,
                   openai_api_key, prompts, entered, agents, tasks, crew,
                   submissions, started, finished, engineOutcome, result, error>>

\* variant: the prompt is repeated while the entered line is empty
PromptUserUntilNonEmpty ==
    /\ pc = "prompt"
    /\ \E v \in Values :
         /\ api_key' = v
         /\ entered' = Append(entered, v)
         /\ pc' = IF v = "" /\ prompts < 2 THEN "prompt" ELSE "cache_key"
    /\ prompts' = prompts + 1
    /\ UNCHANGED <<helperAvailable, resolver, env, env0, dotenvFile,
                   openai_api_key, agents, tasks, crew, submissions,
                   started, finished, engineOutcome, result, error>>

\* print(...); api_key = getpass(...): the user enters any line
PromptUser ==
    /\ pc = "prompt"
    /\ \E v \in Values :
         /\ api_key' = v
         /\ entered' = Append(entered, v)
    /\ prompts' = prompts + 1
    /\ pc' = "cache_key"
    /\ UNCHANGED <<helperAvailable, resolver, env, env0, dotenvFile,
                   openai_api_key, agents, tasks, crew, submissions,
                   started, finished, engineOutcome, result, error>>

\* getpass(...) with no input available: EOFError, which nothing catches
PromptEOF ==
    /\ pc = "prompt"
    /\ prompts' = prompts + 1
    /\ error' = "EOFError"
    /\ pc' = "crashed"
    /\ UNCHANGED <<helperAvailable, resolver, env, env0, dotenvFile, api_key,
                   openai_api_key, entered, agents, tasks, crew, submissions,
                   started, finished, engineOutcome, result>>

\* variant: the entered key is not written to os.environ
CacheKeySkipped ==
    /\ pc = "cache_key"
    /\ pc' = "return_key"
    /\ UNCHANGED <<helperAvailable, resolver, env, env0, dotenvFile, api_key,
                   openai_api_key, prompts, entered, agents, tasks, crew,
                   submissions, started, finished, engineOutcome, result, error>>

\* os.environ["OPENAI_API_KEY"] = api_key
CacheKey ==
    /\ pc = "cache_key"
    /\ env' = EnvSet(env, API_KEY, api_key)
    /\ pc' = "return_key"
    /\ UNCHANGED <<helperAvailable, resolver, env0, dotenvFile, api_key,
                   openai_api_key, prompts, entered, agents, tasks, crew,
                   submissions, started, finished, engineOutcome, result, error>>

\* return api_key, assigned to openai_api_key by agents.py:12
ReturnKey ==
    /\ pc = "return_key"
    /\ openai_api_key' = api_key
    /\ pc' = "set_env_key"
    /\ UNCHANGED <<helperAvailable, resolver, env, env0, dotenvFile, api_key,
                   prompts, entered, agents, tasks, crew, submissions,
                   started, finished, engineOutcome, result, error>>

(* --------------------------- agents.py 13-88 --------------------------- *)

\* binding of a module-level name to a constructed object
Bind(f, n, v) == [x \in DOMAIN f \cup {n} |-> IF x = n THEN v ELSE f[x]]

\* os.environ["OPENAI_API_KEY"] = openai_api_key
SetEnvKey ==
    /\ pc = "set_env_key"
    /\ env' = EnvSet(env, API_KEY, openai_api_key)
    /\ pc' = "set_model_name"
    /\ UNCHANGED <<helperAvailable, resolver, env0, dotenvFile, api_key,
                   openai_api_key, prompts, entered, agents, tasks, crew,
                   submissions, started, finished, engineOutcome, result,
                   error>>

\* os.environ["OPENAI_MODEL_NAME"] = 'gpt-4'
SetModelName ==
    /\ pc = "set_model_name"
    /\ env' = EnvSet(env, MODEL_NAME, "gpt-4")
    /\ pc' = "make_planner"
    /\ UNCHANGED <<helperAvailable, resolver, env0, dotenvFile, api_key,
                   openai_api_key, prompts, entered, agents, tasks, crew,
                   submissions, started, finished, engineOutcome, result,
                   error>>

\* planner = Agent(...)
ConstructPlanner ==
    /\ pc = "make_planner"
    /\ agents' = Bind(agents, "planner",
                      [role |-> "Blog content planner", allow_delegation |-> FALSE,
                       verbose |-> TRUE])
    /\ pc' = "make_writer"
    /\ UNCHANGED <<helperAvailable, resolver, env, env0, dotenvFile, api_key,
                   openai_api_key, prompts, entered, tasks, crew,
                   submissions, started, finished, engineOutcome, result,
                   error>>

\* writer = Agent(...)
ConstructWriter ==
    /\ pc = "make_writer"
    /\ agents' = Bind(agents, "writer",
                      [role |-> "Blog content writer", allow_delegation |-> FALSE,
                       verbose |-> TRUE])
    /\ pc' = "make_editor"
    /\ UNCHANGED <<helperAvailable, resolver, env, env0, dotenvFile, api_key,
                   openai_api_key, prompts, entered, tasks, crew,
                   submissions, started, finished, engineOutcome, result,
                   error>>

\* editor = Agent(...)
ConstructEditor ==
    /\ pc = "make_editor"
    /\ agents' = Bind(agents, "editor",
                      [role |-> "Blog content editor", allow_delegation |-> FALSE,
                       verbose |-> TRUE])
    /\ pc' = "make_plan"
    /\ UNCHANGED <<helperAvailable, resolver, env, env0, dotenvFile, api_key,
                   openai_api_key, prompts, entered, tasks, crew,
                   submissions, started, finished, engineOutcome, result,
                   error>>

\* plan = Task(..., agent=planner): no context argument
ConstructPlan ==
    /\ pc = "make_plan"
    /\ tasks' = Bind(tasks, "plan",
                     [name |-> "Plan the blog content", agent |-> "planner", context |-> <<>>])
    /\ pc' = "make_write"
    /\ UNCHANGED <<helperAvailable, resolver, env, env0, dotenvFile, api_key,
                   openai_api_key, prompts, entered, agents, crew,
                   submissions, started, finished, engineOutcome, result,
                   error>>

\* write = Task(..., agent=writer, context=[plan])
ConstructWrite ==
    /\ pc = "make_write"
    /\ tasks' = Bind(tasks, "write",
                     [name |-> "Write the blog content", agent |-> "writer", context |-> <<"plan">>])
    /\ pc' = "make_edit"
    /\ UNCHANGED <<helperAvailable, resolver, env, env0, dotenvFile, api_key,
                   openai_api_key, prompts, entered, agents, crew,
                   submissions, started, finished, engineOutcome, result,
                   error>>

\* variant: edit takes its context from plan
ConstructEditFromPlan ==
    /\ pc = "make_edit"
    /\ tasks' = Bind(tasks, "edit",
                     [name |-> "Edit the blog content", agent |-> "editor", context |-> <<"plan">>])
    /\ pc' = "make_crew"
    /\ UNCHANGED <<helperAvailable, resolver, env, env0, dotenvFile, api_key,
                   openai_api_key, prompts, entered, agents, crew,
                   submissions, started, finished, engineOutcome, result,
                   error>>

\* variant: edit is assigned to the writer
ConstructEditByWriter ==
    /\ pc = "make_edit"
    /\ tasks' = Bind(tasks, "edit",
                     [name |-> "Edit the blog content", agent |-> "writer", context |-> <<"write">>])
    /\ pc' = "make_crew"
    /\ UNCHANGED <<helperAvailable, resolver, env, env0, dotenvFile, api_key,
                   openai_api_key, prompts, entered, agents, crew,
                   submissions, started, finished, engineOutcome, result,
                   error>>

\* edit = Task(..., agent=editor, context=[write])
ConstructEdit ==
    /\ pc = "make_edit"
    /\ tasks' = Bind(tasks, "edit",
                     [name |-> "Edit the blog content", agent |-> "editor", context |-> <<"write">>])
    /\ pc' = "make_crew"
    /\ UNCHANGED <<helperAvailable, resolver, env, env0, dotenvFile, api_key,
                   openai_api_key, prompts, entered, agents, crew,
                   submissions, started, finished, engineOutcome, result,
                   error>>

\* variant: the tasks list starts with write
ConstructCrewWriteFirst ==
    /\ pc = "make_crew"
    /\ crew' = [agents |-> <<"planner", "writer", "editor">>,
                tasks |-> <<"write", "plan", "edit">>, verbose |-> TRUE]
    /\ pc' = "kickoff"
    /\ UNCHANGED <<helperAvailable, resolver, env, env0, dotenvFile, api_key,
                   openai_api_key, prompts, entered, agents, tasks,
                   submissions, started, finished, engineOutcome, result,
                   error>>

\* crew = Crew(agents=[planner, writer, editor], tasks=[plan, write, edit])
ConstructCrew ==
    /\ pc = "make_crew"
    /\ crew' = [agents |-> <<"planner", "writer", "editor">>,
                tasks |-> <<"plan", "write", "edit">>, verbose |-> TRUE]
    /\ pc' = "kickoff"
    /\ UNCHANGED <<helperAvailable, resolver, env, env0, dotenvFile, api_key,
                   openai_api_key, prompts, entered, agents, tasks,
                   submissions, started, finished, engineOutcome, result,
                   error>>

\* crew.kickoff(inputs={"topic": ...}): the crew is handed to the engine.  The
\* topic is a literal in the script; the model lets it range over Topics.
Kickoff ==
    /\ pc = "kickoff"
    /\ \E topic \in Topics :
         submissions' = Append(submissions,
                               [agents |-> crew.agents, tasks |-> crew.tasks,
                                assigned |-> [i \in 1..Len(crew.tasks) |->
                                                tasks[crew.tasks[i]].agent],
                                inputs |-> [topic |-> topic]])
    /\ pc' = "engine"
    /\ UNCHANGED <<helperAvailable, resolver, env, env0, dotenvFile, api_key,
                   openai_api_key, prompts, entered, agents, tasks, crew,
                   started, finished, engineOutcome, result, error>>

\* the engine (no process argument: sequential) runs the tasks of the crew one
\* at a time, in the order of the tasks list
EngineStartTask ==
    /\ pc = "engine"
    /\ Len(started) = Len(finished)
    /\ Len(finished) < Len(crew.tasks)
    /\ started' = Append(started, crew.tasks[Len(finished) + 1])
    /\ UNCHANGED <<pc, helperAvailable, resolver, env, env0, dotenvFile,
                   api_key, openai_api_key, prompts, entered, agents, tasks,
                   crew, submissions, finished, engineOutcome, result, error>>

\* the running task produces its output
EngineFinishTask ==
    /\ pc = "engine"
    /\ Len(started) = Len(finished) + 1
    /\ finished' = Append(finished, started[Len(started)])
    /\ UNCHANGED <<pc, helperAvailable, resolver, env, env0, dotenvFile,
                   api_key, openai_api_key, prompts, entered, agents, tasks,
                   crew, submissions, started, engineOutcome, result, error>>

\* variant: a failed kickoff is submitted again
EngineRaiseRetried ==
    /\ pc = "engine"
    /\ Len(submissions) < 2
    /\ \E e \in EngineErrors : engineOutcome' = [kind |-> "raised", value |-> e]
    /\ started' = <<>>
    /\ finished' = <<>>
    /\ pc' = "kickoff"
    /\ UNCHANGED <<helperAvailable, resolver, env, env0, dotenvFile, api_key,
                   openai_api_key, prompts, entered, agents, tasks, crew,
                   submissions, result, error>>

\* the engine raises; the script has no try around kickoff, so the exception
\* ends the run
EngineRaise ==
    /\ pc = "engine"
    /\ \E e \in EngineErrors :
         /\ engineOutcome' = [kind |-> "raised", value |-> e]
         /\ error' = e
    /\ pc' = "crashed"
    /\ UNCHANGED <<helperAvailable, resolver, env, env0, dotenvFile, api_key,
                   openai_api_key, prompts, entered, agents, tasks, crew,
                   submissions, started, finished, result>>

\* every task has run: kickoff returns the final output
EngineReturn ==
    /\ pc = "engine"
    /\ Len(finished) = Len(crew.tasks)
    /\ \E o \in EngineOutputs : engineOutcome' = [kind |-> "returned", value |-> o]
    /\ pc' = "assign_result"
    /\ UNCHANGED <<helperAvailable, resolver, env, env0, dotenvFile, api_key,
                   openai_api_key, prompts, entered, agents, tasks, crew,
                   submissions, started, finished, result, error>>

\* result = crew.kickoff(...)
AssignResult ==
    /\ pc = "assign_result"
    /\ result' = engineOutcome.value
    /\ pc' = "done"
    /\ UNCHANGED <<helperAvailable, resolver, env, env0, dotenvFile, api_key,
                   openai_api_key, prompts, entered, agents, tasks, crew,
                   submissions, started, finished, engineOutcome, error>>

(* ------------------------------- Next ---------------------------------- *)

Next ==
    \/ ImportHelper
    \/ CallResolver
    \/ StubRaise
    \/ LoadDotenv
    \/ ReadEnv
    \/ PromptUser
    \/ PromptEOF
    \/ CacheKey
    \/ ReturnKey
    \/ SetEnvKey
    \/ SetModelName
    \/ ConstructPlanner
    \/ ConstructWriter
    \/ ConstructEditor
    \/ ConstructPlan
    \/ ConstructWrite
    \/ ConstructEdit
    \/ ConstructCrew
    \/ Kickoff
    \/ EngineStartTask
    \/ EngineFinishTask
    \/ EngineRaise
    \/ EngineReturn
    \/ AssignResult

Spec == Init /\ [][Next]_vars

(* ------------------------------ properties ----------------------------- *)

\* get_openai_api_key() has returned to agents.py:12
Returned == openai_api_key # None

\* get_openai_api_key() has just returned and agents.py:13 has not run yet
AtReturn == pc = "set_env_key"

Submitted == Len(submissions) > 0

\* the tasks whose output task t receives as context
Upstream(t) == {tasks[t].context[i] : i \in 1..Len(tasks[t].context)}

SeqToSet(q) == {q[i] : i \in 1..Len(q)}

\* C1 as stated: whatever value OPENAI_API_KEY has in the environment before
\* the call, the call returns that value and never prompts.
C1_AnyEnvValueReturned ==
    API_KEY \in DOMAIN env0 =>
        /\ prompts = 0
        /\ Returned => openai_api_key = env0[API_KEY]

\* C1 amended: when OPENAI_API_KEY is set to a non-empty value in the
\* environment before the call, the call never prompts and returns exactly
\* that value, also when the .env file defines another value for it.
C1_NonEmptyEnvValueReturned ==
    (API_KEY \in DOMAIN env0 /\ env0[API_KEY] # "") =>
        /\ prompts = 0
        /\ Returned => openai_api_key = env0[API_KEY]

C1_Witness ==
    /\ Returned
    /\ API_KEY \in DOMAIN env0 /\ env0[API_KEY] # ""
    /\ API_KEY \in DOMAIN dotenvFile /\ dotenvFile[API_KEY] # env0[API_KEY]
    /\ openai_api_key = env0[API_KEY]

\* C2 as stated: with OPENAI_API_KEY absent from the environment and defined
\* in the .env file, the call returns the file's value without prompting and
\* the environment variable holds that value afterwards.
C2_AnyFileValueReturned ==
    (API_KEY \notin DOMAIN env0 /\ API_KEY \in DOMAIN dotenvFile) =>
        /\ prompts = 0
        /\ Returned => /\ openai_api_key = dotenvFile[API_KEY]
                       /\ EnvGet(env, API_KEY) = dotenvFile[API_KEY]

\* C2 amended: with OPENAI_API_KEY absent from the environment and defined
\* with a non-empty value in the .env file, the call returns the file's value
\* without prompting and the environment variable holds that value afterwards.
C2_NonEmptyFileValueReturned ==
    (API_KEY \notin DOMAIN env0 /\ API_KEY \in DOMAIN dotenvFile
        /\ dotenvFile[API_KEY] # "") =>
        /\ prompts = 0
        /\ Returned => /\ openai_api_key = dotenvFile[API_KEY]
                       /\ EnvGet(env, API_KEY) = dotenvFile[API_KEY]

C2_Witness ==
    /\ Returned
    /\ API_KEY \notin DOMAIN env0
    /\ API_KEY \in DOMAIN dotenvFile /\ dotenvFile[API_KEY] # ""
    /\ openai_api_key = dotenvFile[API_KEY]

\* C3: with OPENAI_API_KEY absent from the environment and from the .env file,
\* a call prompts at most once, and when it returns it has prompted exactly
\* once and returns exactly what the user entered, the empty line included.
C3_PromptOnceReturnsEntry ==
    (API_KEY \notin DOMAIN env0 /\ API_KEY \notin DOMAIN dotenvFile) =>
        /\ prompts <= 1
        /\ Len(entered) <= prompts
        /\ Returned => (prompts = 1 /\ entered = <<openai_api_key>>)

C3_Witness ==
    /\ Returned
    /\ API_KEY \notin DOMAIN env0 /\ API_KEY \notin DOMAIN dotenvFile
    /\ prompts = 1
    /\ entered = <<"">>

\* C4: from the moment get_openai_api_key() returns, on every path, the
\* environment variable OPENAI_API_KEY equals the returned value, up to and
\* after the submission of the pipeline.
C4_EnvHoldsReturnedKey ==
    Returned => (API_KEY \in DOMAIN env /\ env[API_KEY] = openai_api_key)

C4_Witness ==
    /\ Submitted
    /\ prompts = 1
    /\ API_KEY \notin DOMAIN env0
    /\ env[API_KEY] = openai_api_key

\* C5: a task starts only after every task of its context has produced its
\* output (plan, then write, then edit), and no task is upstream of itself,
\* directly or through other tasks.
C5_OrderRespectsDependencies ==
    /\ \A i \in 1..Len(started) :
         /\ Upstream(started[i]) \subseteq SeqToSet(finished)
         /\ \A u \in Upstream(started[i]) :
              \E j \in 1..Len(finished) : finished[j] = u /\ j < i
    /\ \A t \in DOMAIN tasks :
         /\ t \notin Upstream(t)
         /\ \A u \in Upstream(t) \cap DOMAIN tasks :
              /\ t \notin Upstream(u)
              /\ \A w \in Upstream(u) \cap DOMAIN tasks : t \notin Upstream(w)

C5_Witness ==
    /\ started = <<"plan", "write", "edit">>
    /\ finished = <<"plan", "write", "edit">>

\* C6: the upstream set of write is exactly {plan}, that of edit is exactly
\* {write}, and plan has no upstream task.
C6_LinearChain ==
    /\ "plan" \in DOMAIN tasks => Upstream("plan") = {}
    /\ "write" \in DOMAIN tasks => Upstream("write") = {"plan"}
    /\ "edit" \in DOMAIN tasks => Upstream("edit") = {"write"}

C6_Witness ==
    /\ DOMAIN tasks = {"plan", "write", "edit"}
    /\ Len(tasks["edit"].context) = 1

\* C7: every submission to the engine holds the three workers and the three
\* tasks, each task assigned to its own worker, whatever the topic.
C7_SubmissionComplete ==
    \A n \in 1..Len(submissions) :
        LET s == submissions[n] IN
        /\ SeqToSet(s.agents) = {"planner", "writer", "editor"}
        /\ Len(s.agents) = 3
        /\ SeqToSet(s.tasks) = {"plan", "write", "edit"}
        /\ Len(s.tasks) = 3
        /\ \A i \in 1..Len(s.tasks) :
             s.assigned[i] = (CASE s.tasks[i] = "plan" -> "planner"
                                [] s.tasks[i] = "write" -> "writer"
                                [] s.tasks[i] = "edit" -> "editor")
        /\ {"planner", "writer", "editor"} \subseteq DOMAIN agents
        /\ Cardinality({agents[a].role : a \in SeqToSet(s.agents)}) = 3

C7_Witness ==
    /\ Submitted
    /\ submissions[1].inputs.topic = "another topic"

\* C8: when the credential helper cannot be imported, the run never gets past
\* the resolver call, ends there with the import error, and by then the
\* script has written no environment variable and built or submitted nothing.
C8_StubFailsBeforeAnyEffect ==
    ~helperAvailable =>
        /\ pc \in {"import_utils", "call_resolver", "crashed"}
        /\ pc = "crashed" => error = "ImportError"
        /\ env = env0
        /\ openai_api_key = None
        /\ DOMAIN agents = {} /\ DOMAIN tasks = {}
        /\ crew = NoCrew
        /\ submissions = <<>> /\ started = <<>>

C8_Witness ==
    /\ ~helperAvailable
    /\ pc = "crashed"
    /\ error = "ImportError"

\* C9: the pipeline is submitted at most once; when the engine raises, the run
\* ends with that same error and no result; when the run completes, the
\* result is what the engine returned.
C9_SingleSubmission ==
    /\ Len(submissions) <= 1
    /\ engineOutcome.kind = "raised" =>
         (pc = "crashed" /\ error = engineOutcome.value /\ result = None)
    /\ pc = "done" =>
         (engineOutcome.kind = "returned" /\ result = engineOutcome.value)

C9_Witness ==
    /\ engineOutcome.kind = "raised"
    /\ pc = "crashed"
    /\ Len(submissions) = 1

\* C10 as stated: the .env file is loaded only when OPENAI_API_KEY is absent
\* at the first check, so a call made with the variable already set returns
\* with the process environment unchanged.
C10_SetKeyLeavesEnvUnchanged ==
    (AtReturn /\ helperAvailable /\ API_KEY \in DOMAIN env0) => env = env0

\* C10 amended: the .env file is loaded before the first check, whether or not
\* OPENAI_API_KEY is set, and never overrides a variable the environment
\* already has; a call made with OPENAI_API_KEY already set to a non-empty
\* value does not prompt, leaves every variable the environment had
\* unchanged, and adds exactly the variables that only the file defines, with
\* the file's values.
C10_SetKeyKeepsExistingVars ==
    (AtReturn /\ helperAvailable /\ API_KEY \in DOMAIN env0
        /\ env0[API_KEY] # "") =>
        /\ prompts = 0
        /\ DOMAIN env = DOMAIN env0 \cup DOMAIN dotenvFile
        /\ \A k \in DOMAIN env0 : env[k] = env0[k]
        /\ \A k \in DOMAIN env \ DOMAIN env0 : env[k] = dotenvFile[k]

C10_Witness ==
    /\ AtReturn
    /\ API_KEY \in DOMAIN env0 /\ env0[API_KEY] # ""
    /\ \E k \in DOMAIN dotenvFile : k \in DOMAIN env0 /\ dotenvFile[k] # env0[k]
    /\ \E k \in DOMAIN dotenvFile : k \notin DOMAIN env0 /\ env[k] = dotenvFile[k]

====
